---- MODULE Spec2Model ----
(***************************************************************************)
(* The blind-token server of src/server/main.go: startup (main), the       *)
(* listener (ListenAndServe) and the per-connection handler (handle).      *)
(* The protocol engine it calls (package btd and btd/crypto) is modelled   *)
(* over the toy group of prime order q: the point g^a is the exponent a,   *)
(* point addition is + mod q and scalar multiplication is * mod q.         *)
(***************************************************************************)
EXTENDS Integers, Sequences, FiniteSets, TLC

\* ------------------------------------------------------------- bounds
MaxKeys == 2
MaxTokensBound == 2
MaxConns == 2

\* ------------------------------------------------------ toy group (spec 8)
q == 11

Points == 0 .. (q - 1)
Identity == 0
BadPoint == q
ValidPoints == 1 .. (q - 1)
Add(P, Q) == (P + Q) % q
ScalarMult(k, P) == (k * P) % q
ScalarInv(r) == CHOOSE x \in 1 .. (q - 1) : (x * r) % q = 1
IsValidPoint(P) == P \in ValidPoints

\* The scalars a key file may hold, the preimages, hosts and paths of the
\* requests explored.
Scalars == {3, 7}
Preimages == {1, 2}
Hosts == {1, 2}
Paths == {1, 2}

RECURSIVE HashToScalar(_)
HashToScalar(s) ==
  IF s = <<>> THEN 1
  ELSE (3 * HashToScalar(SubSeq(s, 1, Len(s) - 1)) + s[Len(s)] + 1) % q

\* ------------------------------------------- DLEQ batch proof engine (4.2)
Coefficient(G, H, M, Z, i) == HashToScalar(<<G, H>> \o M \o Z \o <<i>>)

Composite(G, H, M, Z, P) ==
  LET F[i \in 0 .. Len(P)] ==
        IF i = 0 THEN Identity
        ELSE Add(F[i - 1], ScalarMult(Coefficient(G, H, M, Z, i), P[i]))
  IN  F[Len(P)]

Challenge(G, H, Mstar, Zstar, A, B) == HashToScalar(<<G, H, Mstar, Zstar, A, B>>)

NewBatchProof(k, G, H, M, Z, r) ==
  LET Mstar == Composite(G, H, M, Z, M)
      Zstar == Composite(G, H, M, Z, Z)
      A == ScalarMult(r, G)
      B == ScalarMult(r, Mstar)
      e == Challenge(G, H, Mstar, Zstar, A, B)
  IN  [A |-> A, B |-> B, s |-> (r + e * k) % q]

VerifyBatchProof(G, H, M, Z, proof) ==
  LET Mstar == Composite(G, H, M, Z, M)
      Zstar == Composite(G, H, M, Z, Z)
      e == Challenge(G, H, Mstar, Zstar, proof.A, proof.B)
  IN  /\ ScalarMult(proof.s, G) = Add(proof.A, ScalarMult(e, H))
      /\ ScalarMult(proof.s, Mstar) = Add(proof.B, ScalarMult(e, Zstar))

NoProof == [A |-> 0, B |-> 0, s |-> 0]

\* ---------------------------------------------------- response payloads
SuccessMarker == "success"
Payload(kind, text, Z, proof) == [kind |-> kind, text |-> text, Z |-> Z, proof |-> proof]
TextPayload(text) == Payload("text", text, <<>>, NoProof)
IssuePayload(Z, proof) == Payload("issued", "", Z, proof)

\* ------------------------------------------- batch blind evaluator (4.1)
\* btd.HandleIssue(conn, request, key, G, H, maxTokens); r is the fresh
\* random scalar of the proof.  The response is written on success only.
HandleIssue(request, key, G, H, maxTokens, r) ==
  LET M == request.Contents
      n == Len(M)
      Z == [i \in 1 .. n |-> ScalarMult(key, M[i])]
      proof == NewBatchProof(key, G, H, M, Z, r)
      reject(e) == [err |-> e, out |-> <<>>]
  IN  IF n = 0 THEN reject("EmptyBatch")
      ELSE IF n > maxTokens THEN reject("BatchSizeExceeded")
      ELSE IF \E i \in 1 .. n : ~IsValidPoint(M[i]) THEN reject("InvalidPoint")
      ELSE [err |-> "nil", out |-> <<IssuePayload(Z, proof)>>]

\* ----------------------------------------------- redemption verifier (4.3)
HashToCurve(t) == 1 + ((5 * t) % (q - 1))
DeriveKey(t, N) == t * q + N
MAC(key, host, path) == (key * q + host) * q + path
\* the tag a client holding the token (t, N) computes for (host, path)
ClientTag(t, N, host, path) == MAC(DeriveKey(t, N), host, path)

\* index of the first key whose derived tag equals the presented one, or 0
FirstMatch(keys, t, tag, host, path) ==
  LET hit(j) == MAC(DeriveKey(t, ScalarMult(keys[j], HashToCurve(t))), host, path) = tag
  IN  IF \E j \in 1 .. Len(keys) : hit(j)
      THEN CHOOSE j \in 1 .. Len(keys) : hit(j) /\ \A i \in 1 .. (j - 1) : ~hit(i)
      ELSE 0

\* btd.HandleRedeem(conn, request, host, path, keys)
HandleRedeem(request, host, path, keys) ==
  LET C == request.Contents
  IN  IF Len(C) # 2 THEN [err |-> "ProtocolDecodeError", out |-> <<>>, matched |-> 0]
      ELSE LET j == FirstMatch(keys, C[1], C[2], host, path)
           IN  IF j = 0 THEN [err |-> "VerifyFailed", out |-> <<>>, matched |-> 0]
               ELSE [err |-> "nil", out |-> <<TextPayload(SuccessMarker)>>, matched |-> j]

\* ------------------------------------------------------------ the server
NilPoint == 0 - 1
\* Server and DefaultServer: the configuration and the key material
DefaultServer ==
  [BindAddress |-> "127.0.0.1", ListenPort |-> 2416, MetricsPort |-> 2417,
   MaxTokens |-> 100, KeyFilePath |-> "", CommFilePath |-> "",
   keys |-> <<>>, G |-> NilPoint, H |-> NilPoint]

\* ------------------------------------------------------ the wire (handle)
maxRequestSize == 20 * 1024
SmallLen == maxRequestSize \div 2
ISSUE == "Issue"
REDEEM == "Redeem"

\* btd.BlindTokenRequest: the inner payload.  claimHost and claimPath are
\* what the client itself says about the binding; wf is whether it parses.
MkRequest(type, contents, claimHost, claimPath) ==
  [wf |-> TRUE, Type |-> type, Contents |-> contents,
   claimHost |-> claimHost, claimPath |-> claimPath]
BadRequest == [wf |-> FALSE, Type |-> "", Contents |-> <<>>, claimHost |-> 0, claimPath |-> 0]
\* btd.BlindTokenRequestWrapper: the envelope.
MkWrapper(request, host, path) == [wf |-> TRUE, Request |-> request, Host |-> host, Path |-> path]
BadWrapper == [wf |-> FALSE, Request |-> BadRequest, Host |-> 0, Path |-> 0]
\* What a client puts on the connection: a document of docLen bytes, then
\* padLen bytes of white space, then end: it closes its side ("eof"), keeps
\* the connection open ("stall") or resets it ("reset").
MkWire(doc, docLen, padLen, end) == [doc |-> doc, docLen |-> docLen, padLen |-> padLen, end |-> end]

Min(a, b) == IF a < b THEN a ELSE b

\* io.Copy(buf, io.LimitReader(conn, maxRequestSize)) under the read deadline
readRequest(wire) ==
  LET total == wire.docLen + wire.padLen
      n == Min(total, maxRequestSize)
      err == IF total >= maxRequestSize THEN "nil"
             ELSE IF wire.end = "eof" THEN "nil"
             ELSE IF wire.end = "stall" THEN "i/o timeout"
             ELSE "connection reset"
  IN  [n |-> n, err |-> err,
       proceed |-> (err = "nil" \/ (err = "i/o timeout" /\ n > 0))]

\* json.Unmarshal(buf.Bytes(), &wrapped): the first n bytes hold a whole
\* document iff the document fits in them; white space may follow it.
unmarshalWrapped(wire, n) ==
  IF wire.docLen > 0 /\ wire.docLen <= n /\ wire.doc.wf THEN wire.doc ELSE BadWrapper

NoCall ==
  [key |-> 0, G |-> 0, H |-> 0, maxTokens |-> 0, host |-> 0, path |-> 0, keys |-> <<>>]

\* the arguments of btd.HandleIssue
issueArgs_lastKey(c) ==
  [NoCall EXCEPT !.key = c.keys[Len(c.keys)], !.G = c.G, !.H = c.H, !.maxTokens = c.MaxTokens]
issueArgs_defaultMax(c) ==
  [NoCall EXCEPT !.key = c.keys[1], !.G = c.G, !.H = c.H, !.maxTokens = DefaultServer.MaxTokens]
issueArgs_swapGH(c) ==
  [NoCall EXCEPT !.key = c.keys[1], !.G = c.H, !.H = c.G, !.maxTokens = c.MaxTokens]
issueArgs(c) ==
  [NoCall EXCEPT !.key = c.keys[1], !.G = c.G, !.H = c.H, !.maxTokens = c.MaxTokens]

\* the arguments of btd.HandleRedeem
redeemArgs_primaryOnly(c, wrapped, request) ==
  [NoCall EXCEPT !.host = wrapped.Host, !.path = wrapped.Path, !.keys = <<c.keys[1]>>]
redeemArgs_swapped(c, wrapped, request) ==
  [NoCall EXCEPT !.host = wrapped.Path, !.path = wrapped.Host, !.keys = c.keys]
redeemArgs_claimed(c, wrapped, request) ==
  [NoCall EXCEPT !.host = request.claimHost, !.path = request.claimPath, !.keys = c.keys]
redeemArgs(c, wrapped, request) ==
  [NoCall EXCEPT !.host = wrapped.Host, !.path = wrapped.Path, !.keys = c.keys]

\* conn.Write([]byte(err.Error())) after a failed HandleRedeem
redeemFailure_silent(out, err) == out
redeemFailure(out, err) == Append(out, TextPayload(err))

Result(err, out, dispatched, call, n) ==
  [err |-> err, out |-> out, dispatched |-> dispatched, call |-> call, read |-> n]

\* switch request.Type: the one handler a decoded request goes to
dispatch_redeemByDefault(type) == IF type = ISSUE THEN "issue" ELSE "redeem"
dispatch(type) ==
  IF type = ISSUE THEN "issue" ELSE IF type = REDEEM THEN "redeem" ELSE "none"

\* What handle assigns to the fields of its receiver c: nothing.
serverAfter_reversedKeys(c, res) ==
  IF res.dispatched = "redeem"
  THEN [c EXCEPT !.keys = [i \in 1 .. Len(c.keys) |-> c.keys[Len(c.keys) + 1 - i]]]
  ELSE c
serverAfter_budget(c, res) ==
  IF res.dispatched = "issue" /\ res.err = "nil"
  THEN [c EXCEPT !.MaxTokens = c.MaxTokens - Len(res.out[1].Z)]
  ELSE c
serverAfter(c, res) == c

\* Server.handle: what one connection's handler returns (err), writes to the
\* connection (out), which handler it called and with which arguments.
handle(c, wire, r) ==
  LET rd == readRequest(wire)
      wrapped == unmarshalWrapped(wire, rd.n)
      request == wrapped.Request
  IN  IF ~rd.proceed THEN Result(rd.err, <<>>, "none", NoCall, rd.n)
      ELSE IF ~wrapped.wf THEN Result("JsonError", <<>>, "none", NoCall, rd.n)
      ELSE IF ~request.wf THEN Result("JsonError", <<>>, "none", NoCall, rd.n)
      ELSE IF dispatch(request.Type) = "issue" THEN
        LET a == issueArgs(c)
            hi == HandleIssue(request, a.key, a.G, a.H, a.maxTokens, r)
        IN  Result(hi.err, hi.out, "issue", a, rd.n)
      ELSE IF dispatch(request.Type) = "redeem" THEN
        LET a == redeemArgs(c, wrapped, request)
            hr == HandleRedeem(request, a.host, a.path, a.keys)
        IN  IF hr.err # "nil"
            THEN Result(hr.err, redeemFailure(hr.out, hr.err), "redeem", a, rd.n)
            ELSE Result("nil", hr.out, "redeem", a, rd.n)
      ELSE Result("ErrUnrecognizedRequest", <<>>, "none", NoCall, rd.n)

\* ------------------------------------------------------------- startup
\* What the process is started with: the command line, and the files.
SeqsUpTo(S, n) == UNION {[1 .. m -> S] : m \in 0 .. n}
KeyFiles ==
  {[ok |-> FALSE, keys |-> <<>>]} \cup {[ok |-> TRUE, keys |-> ks] : ks \in SeqsUpTo(Scalars, MaxKeys)}
CommFiles ==
  {[ok |-> FALSE, G |-> NilPoint, H |-> NilPoint]}
    \cup {[ok |-> TRUE, G |-> g, H |-> h] : g \in {1, 2}, h \in {3, 5, 6, 7}}
EnvFields ==
  [configFile : {"", "conf.json"}, configData : {"unreadable", "malformed", "ok"},
   key : {"", "keys.pem"}, comm : {"", "comm.json"}, maxtokens : 1 .. MaxTokensBound,
   keyFile : KeyFiles, commFile : CommFiles, listenOk : BOOLEAN]
\* configData is the content of the config file, when one is named
Envs == {e \in EnvFields : e.configFile = "" => e.configData = "ok"}

\* loadConfigFile: json.Unmarshal(data, conf) is given the struct, not a
\* pointer to it, and returns InvalidUnmarshalError for well-formed data.
loadConfigFile(e) ==
  [conf |-> DefaultServer,
   err |-> IF e.configData = "unreadable" THEN "ReadFileError"
           ELSE IF e.configData = "malformed" THEN "SyntaxError"
           ELSE "InvalidUnmarshalError"]

\* crypto.ParseKeyFile, crypto.ParseCommitmentFile: the files as read
ParseKeyFile(e) ==
  IF e.keyFile.ok
  THEN [curves |-> [i \in 1 .. Len(e.keyFile.keys) |-> "P-256"], keys |-> e.keyFile.keys,
        err |-> "nil"]
  ELSE [curves |-> <<>>, keys |-> <<>>, err |-> "KeyLoadError"]
ParseCommitmentFile(e) ==
  IF e.commFile.ok THEN [G |-> e.commFile.G, H |-> e.commFile.H, err |-> "nil"]
  ELSE [G |-> NilPoint, H |-> NilPoint, err |-> "CommitmentParseError"]
\* crypto.RetrieveCommPoints: the commitment consistency checker (4.4)
RetrieveCommPoints(G, H, key) ==
  IF IsValidPoint(G) /\ IsValidPoint(H) /\ ScalarMult(key, G) = H
  THEN [G |-> G, H |-> H, err |-> "nil"]
  ELSE [G |-> NilPoint, H |-> NilPoint, err |-> "CommitmentMismatch"]

\* Server.loadKeys
loadKeys_firstOnly(c, e) ==
  IF c.KeyFilePath = "" THEN [srv |-> c, err |-> "ErrEmptyKeyPath"]
  ELSE IF c.CommFilePath = "" THEN [srv |-> c, err |-> "ErrEmptyCommPath"]
  ELSE LET pk == ParseKeyFile(e)
       IN  IF pk.err # "nil" THEN [srv |-> c, err |-> pk.err]
           ELSE [srv |-> [c EXCEPT !.keys = SubSeq(pk.keys, 1, Min(1, Len(pk.keys)))],
                 err |-> "nil"]
loadKeys(c, e) ==
  IF c.KeyFilePath = "" THEN [srv |-> c, err |-> "ErrEmptyKeyPath"]
  ELSE IF c.CommFilePath = "" THEN [srv |-> c, err |-> "ErrEmptyCommPath"]
  ELSE LET pk == ParseKeyFile(e)
       IN  IF pk.err # "nil" THEN [srv |-> c, err |-> pk.err]
           ELSE [srv |-> [c EXCEPT !.keys = pk.keys], err |-> "nil"]

Exit(how, err, c) == [pc |-> how, err |-> err, srv |-> c]

\* main, after RetrieveCommPoints returned rc
commitmentStep_unchecked(c, rc, e) ==
  Exit("ListenAndServe", "nil", [c EXCEPT !.G = e.commFile.G, !.H = e.commFile.H])
commitmentStep(c, rc, e) ==
  IF rc.err # "nil" THEN Exit("fatal", rc.err, [c EXCEPT !.G = rc.G, !.H = rc.H])
  ELSE Exit("ListenAndServe", "nil", [c EXCEPT !.G = rc.G, !.H = rc.H])

\* main, up to the call of ListenAndServe
main(e) ==
  LET flags == [DefaultServer EXCEPT !.KeyFilePath = e.key, !.CommFilePath = e.comm,
                                     !.MaxTokens = e.maxtokens]
      lc == loadConfigFile(e)
      c1 == IF e.configFile # "" THEN lc.conf ELSE flags
  IN  IF e.configFile # "" /\ lc.err # "nil" THEN Exit("fatal", lc.err, c1)
      ELSE IF e.configFile = "" /\ (c1.KeyFilePath = "" \/ c1.CommFilePath = "")
        THEN Exit("usage", "nil", c1)
      ELSE LET lk == loadKeys(c1, e)
           IN  IF lk.err # "nil" THEN Exit("fatal", lk.err, lk.srv)
               ELSE LET cf == ParseCommitmentFile(e)
                    IN  IF cf.err # "nil" THEN Exit("fatal", cf.err, lk.srv)
                        ELSE IF Len(lk.srv.keys) = 0
                          THEN Exit("panic", "index out of range", lk.srv)
                        ELSE commitmentStep(lk.srv,
                               RetrieveCommPoints(cf.G, cf.H, lk.srv.keys[1]), e)

\* Server.ListenAndServe, up to the accept loop
listen(c, e) ==
  IF Len(c.keys) = 0 THEN Exit("fatal", "ErrNoSecretKey", c)
  ELSE IF ~e.listenOk THEN Exit("fatal", "ListenError", c)
  ELSE Exit("serving", "nil", c)

\* ------------------------------------------------------------- requests
Nominal(doc) == MkWire(doc, SmallLen, 0, "eof")
IssueDoc(M) == MkWrapper(MkRequest(ISSUE, M, 1, 1), 1, 1)
RedeemDoc(t, tag, host, path, claimHost, claimPath) ==
  MkWrapper(MkRequest(REDEEM, <<t, tag>>, claimHost, claimPath), host, path)

BlindedPoints == {Identity, 3, 5, BadPoint}
Nonces == 1 .. (q - 1)
\* the tags of the tokens made under any scalar, for any binding, and 0
PresentedTags ==
  {0} \cup {ClientTag(t, ScalarMult(k, HashToCurve(t)), h, p) :
              t \in Preimages, k \in Scalars, h \in Hosts, p \in Paths}

IssueDocs == {IssueDoc(M) : M \in SeqsUpTo(BlindedPoints, MaxTokensBound + 1)}
RedeemDocs ==
  {RedeemDoc(t, tag, h, p, ch, cp) :
     t \in Preimages, tag \in PresentedTags, h \in Hosts, p \in Paths, ch \in Hosts, cp \in Paths}
OtherDocs ==
  {BadWrapper, MkWrapper(BadRequest, 1, 1), MkWrapper(MkRequest("Other", <<>>, 1, 1), 1, 1),
   MkWrapper(MkRequest(REDEEM, <<1>>, 1, 1), 1, 1)}

\* the documents every framing is tried with
SmallDocs ==
  {IssueDoc(<<3>>), IssueDoc(<<>>), IssueDoc([i \in 1 .. (MaxTokensBound + 1) |-> 3]),
   RedeemDoc(1, ClientTag(1, ScalarMult(7, HashToCurve(1)), 1, 1), 1, 1, 2, 2),
   RedeemDoc(1, 0, 1, 1, 1, 1),
   MkWrapper(MkRequest("Other", <<>>, 1, 1), 1, 1), BadWrapper}
Framings ==
  {[docLen |-> d, padLen |-> p, end |-> x] :
     d \in {SmallLen, maxRequestSize, maxRequestSize + 1}, p \in {0, 1, maxRequestSize},
     x \in {"eof", "stall", "reset"}}
FramedWires ==
  {MkWire(doc, f.docLen, f.padLen, f.end) : doc \in SmallDocs, f \in Framings}
    \cup {MkWire(BadWrapper, 0, 0, x) : x \in {"eof", "stall", "reset"}}
\* the requests of the connections of Spec, and those of SpecCore
ConnWires ==
  {Nominal(doc) : doc \in SmallDocs}
    \cup {MkWire(doc, SmallLen, maxRequestSize, "eof") :
            doc \in {IssueDoc(<<3>>), RedeemDoc(1, 0, 1, 1, 1, 1)}}
    \cup {MkWire(IssueDoc(<<3>>), maxRequestSize + 1, 0, "eof"),
          MkWire(IssueDoc(<<3>>), SmallLen, 0, "stall")}
    \cup {MkWire(BadWrapper, 0, 0, x) : x \in {"stall", "reset"}}
ConnNonces == {4}
CoreWires == {Nominal(doc) : doc \in IssueDocs \cup RedeemDocs \cup OtherDocs} \cup FramedWires

\* --------------------------------------------------------------- state
VARIABLES pc, exitErr, env, srv, conns, last, wallet, backoffDelay, acceptLog
vars == <<pc, exitErr, env, srv, conns, last, wallet, backoffDelay, acceptLog>>

\* Durations are in milliseconds.
maxBackoffDelay == 1000
initialBackoffDelay == 1

\* The accept loop's branch for an error of listener.AcceptTCP: how long it
\* sleeps (0: no sleep) and the delay it stores for the next iteration.
acceptError_doubleFirst(delay, temporary) ==
  IF temporary
  THEN LET d == IF delay > maxBackoffDelay THEN maxBackoffDelay ELSE delay
       IN  [slept |-> 2 * d, backoffDelay |-> 2 * d]
  ELSE [slept |-> 0, backoffDelay |-> delay]
acceptError(delay, temporary) ==
  IF temporary
  THEN LET d == IF delay > maxBackoffDelay THEN maxBackoffDelay ELSE delay
       IN  [slept |-> d, backoffDelay |-> 2 * d]
  ELSE [slept |-> 0, backoffDelay |-> delay]

\* The last iteration of the accept loop: its outcome, the delay stored before
\* it, how long it slept, and the last sleep since a connection was accepted
\* (0: none) before and after it.
AcceptLog(outcome, before, slept, prevSleep) ==
  [outcome |-> outcome, before |-> before, slept |-> slept, prevSleep |-> prevSleep,
   lastSleep |-> IF outcome = "ok" THEN 0 ELSE IF slept > 0 THEN slept ELSE prevSleep]
NoAccept == AcceptLog("none", initialBackoffDelay, 0, 0)

\* The logging goroutine receives one result from errorChannel: it prints a
\* non-nil error, and ListenAndServe goes on.
logger_fatal(err) ==
  IF err = "nil" THEN [printed |-> FALSE, pc |-> "serving"]
  ELSE [printed |-> TRUE, pc |-> "fatal"]
logger(err) == [printed |-> err # "nil", pc |-> "serving"]

\* The goroutine of one connection closes that connection.
closeConn_all(cs, c) == [d \in DOMAIN cs |-> [st |-> "closed", wire |-> cs[d].wire, res |-> cs[d].res]]
closeConn(cs, c) == [cs EXCEPT ![c] = [st |-> "closed", wire |-> cs[c].wire, res |-> cs[c].res]]

NoEnv ==
  [configFile |-> "", configData |-> "ok", key |-> "", comm |-> "", maxtokens |-> 1,
   keyFile |-> [ok |-> FALSE, keys |-> <<>>],
   commFile |-> [ok |-> FALSE, G |-> NilPoint, H |-> NilPoint], listenOk |-> FALSE]
NoWire == MkWire(BadWrapper, 0, 0, "eof")
NoResult == Result("nil", <<>>, "none", NoCall, 0)
FreeConn == [st |-> "free", wire |-> NoWire, res |-> NoResult]
NoLast == [kind |-> "none", wire |-> NoWire, res |-> NoResult, alter |-> "none"]
NoWallet == [has |-> FALSE, t |-> 0, N |-> 0]
ConnIds == 1 .. MaxConns

Init ==
  /\ pc = "start"
  /\ exitErr = "nil"
  /\ env = NoEnv
  /\ srv = DefaultServer
  /\ conns = [c \in ConnIds |-> FreeConn]
  /\ last = NoLast
  /\ wallet = NoWallet
  /\ backoffDelay = initialBackoffDelay
  /\ acceptLog = NoAccept

\* main: the process starts, with some command line and files out of E
MainFrom(E) ==
  /\ pc = "start"
  /\ \E e \in E :
       LET m == main(e)
       IN  /\ pc' = m.pc
           /\ exitErr' = m.err
           /\ srv' = m.srv
           /\ env' = e
  /\ UNCHANGED <<conns, last, wallet, backoffDelay, acceptLog>>
Main == MainFrom(Envs)

\* ListenAndServe opens the listener, or fails
Listen ==
  /\ pc = "ListenAndServe"
  /\ LET m == listen(srv, env)
     IN  /\ pc' = m.pc
         /\ exitErr' = m.err
         /\ srv' = m.srv
  /\ backoffDelay' = initialBackoffDelay
  /\ UNCHANGED <<env, conns, last, wallet, acceptLog>>

\* listener.AcceptTCP returns a connection; its goroutine is started
Accept ==
  /\ pc = "serving"
  /\ \E c \in ConnIds :
       /\ conns[c].st \in {"free", "closed"}
       /\ \A d \in 1 .. (c - 1) : conns[d].st \notin {"free", "closed"}
       /\ conns' = [conns EXCEPT ![c] = [FreeConn EXCEPT !.st = "accepted"]]
  /\ backoffDelay' = initialBackoffDelay
  /\ acceptLog' = AcceptLog("ok", backoffDelay, 0, acceptLog.lastSleep)
  /\ UNCHANGED <<pc, exitErr, env, srv, last, wallet>>

\* listener.AcceptTCP returns an error, temporary or not; the loop goes on
AcceptError ==
  /\ pc = "serving"
  /\ \E temporary \in BOOLEAN :
       LET a == acceptError(backoffDelay, temporary)
       IN  /\ backoffDelay' = a.backoffDelay
           /\ acceptLog' = AcceptLog(IF temporary THEN "temporary" ELSE "error",
                                     backoffDelay, a.slept, acceptLog.lastSleep)
           /\ pc' = logger("AcceptError").pc
  /\ UNCHANGED <<exitErr, env, srv, conns, last, wallet>>

\* c.handle(tcpConn) runs on what the client sends
Handle(c) ==
  /\ conns[c].st = "accepted"
  /\ \E wire \in ConnWires, r \in ConnNonces :
       LET res == handle(srv, wire, r)
       IN  /\ conns' = [conns EXCEPT ![c] = [st |-> "handled", wire |-> wire, res |-> res]]
           /\ srv' = serverAfter(srv, res)
  /\ UNCHANGED <<pc, exitErr, env, last, wallet, backoffDelay, acceptLog>>

\* errorChannel <- result: the logging goroutine receives it
Deliver(c) ==
  /\ conns[c].st = "handled"
  /\ conns' = [conns EXCEPT ![c].st = "delivered"]
  /\ pc' = logger(conns[c].res.err).pc
  /\ UNCHANGED <<exitErr, env, srv, last, wallet, backoffDelay, acceptLog>>

\* tcpConn.Close()
Close(c) ==
  /\ conns[c].st = "delivered"
  /\ conns' = [closeConn(conns, c) EXCEPT ![c].wire = NoWire, ![c].res = NoResult]
  /\ UNCHANGED <<pc, exitErr, env, srv, last, wallet, backoffDelay, acceptLog>>

Next ==
  \/ Main
  \/ Listen
  \/ Accept
  \/ \E c \in ConnIds : Handle(c)
  \/ \E c \in ConnIds : Deliver(c)
  \/ \E c \in ConnIds : Close(c)

Spec == Init /\ [][Next]_vars

\* The same program under the Go scheduler: a goroutine that can take its next
\* step takes it. handle returns (its read has a deadline), the logging
\* goroutine is always at its receive, and Close returns.
Fairness ==
  \A c \in ConnIds :
    WF_vars(Handle(c)) /\ WF_vars(Deliver(c)) /\ WF_vars(Close(c))
\* Which keys the server holds does not bear on the order of a goroutine's
\* steps: here main starts with key files of at most one key and the least
\* batch limit, and the connections and their requests are those of Spec.
OneKeyEnvs == {e \in Envs : Len(e.keyFile.keys) <= 1 /\ e.maxtokens = 1}
MainOneKey == MainFrom(OneKeyEnvs)
NextFair ==
  \/ MainOneKey
  \/ Listen
  \/ Accept
  \/ \E c \in ConnIds : Handle(c)
  \/ \E c \in ConnIds : Deliver(c)
  \/ \E c \in ConnIds : Close(c)
SpecFair == Init /\ [][NextFair]_vars /\ Fairness

\* The accept loop alone, with the errors of listener.AcceptTCP: the goroutines
\* of the accepted connections do not touch backoffDelay, and stay where they
\* started.
NextBackoff ==
  \/ Main
  \/ Listen
  \/ Accept
  \/ AcceptError
SpecBackoff == Init /\ [][NextBackoff]_vars

\* ------------------------------------------ one request at a time (SpecCore)
\* Any request of CoreWires is handled; last records it with its result
\* until the exchange is over (Done).
Request ==
  /\ pc = "serving"
  /\ last.kind = "none"
  /\ \E wire \in CoreWires, r \in Nonces :
       LET res == handle(srv, wire, r)
       IN  /\ last' = [kind |-> "request", wire |-> wire, res |-> res, alter |-> "none"]
           /\ srv' = serverAfter(srv, res)
  /\ UNCHANGED <<pc, exitErr, env, conns, wallet, backoffDelay, acceptLog>>

\* A client blinds T = HashToCurve(t) with b, has M = b.T signed, checks the
\* proof against the published commitment and unblinds: N = (1/b).Z.
ClientIssue ==
  /\ pc = "serving"
  /\ last.kind = "none"
  /\ \E t \in Preimages, b \in 1 .. (q - 1), r \in Nonces :
       LET M == <<ScalarMult(b, HashToCurve(t))>>
           wire == Nominal(IssueDoc(M))
           res == handle(srv, wire, r)
           got == res.err = "nil" /\ Len(res.out) = 1 /\ res.out[1].kind = "issued"
                    /\ Len(res.out[1].Z) = 1
                    /\ VerifyBatchProof(env.commFile.G, env.commFile.H, M, res.out[1].Z,
                                        res.out[1].proof)
       IN  /\ last' = [kind |-> "clientIssue", wire |-> wire, res |-> res, alter |-> "none"]
           /\ wallet' = IF got
                        THEN [has |-> TRUE, t |-> t,
                              N |-> ScalarMult(ScalarInv(b), res.out[1].Z[1])]
                        ELSE wallet
           /\ srv' = serverAfter(srv, res)
  /\ UNCHANGED <<pc, exitErr, env, conns, backoffDelay, acceptLog>>

\* x with bit i flipped
FlipBit(x, i) == IF (x \div (2 ^ i)) % 2 = 1 THEN x - 2 ^ i ELSE x + 2 ^ i
\* the bit positions of a tag: the largest tag is below q^4
RECURSIVE BitLen(_)
BitLen(n) == IF n = 0 THEN 0 ELSE 1 + BitLen(n \div 2)
TagBits == 0 .. (BitLen(q * q * q * q) - 1)

\* The client redeems its token for (host, path); alter says which one of
\* t, tag, host, path, if any, reaches the server changed, and how: one bit
\* of the tag flipped (or the tag zeroed), another preimage, host or path.
ClientRedeem ==
  /\ pc = "serving"
  /\ last.kind = "none"
  /\ wallet.has
  /\ \E host \in Hosts, path \in Paths, alter \in {"none", "t", "tag", "host", "path"} :
       LET tag == ClientTag(wallet.t, wallet.N, host, path)
       IN  \E t2 \in (0 .. 3) \ {wallet.t}, tag2 \in {0} \cup {FlipBit(tag, i) : i \in TagBits},
              host2 \in Hosts \ {host}, path2 \in Paths \ {path} :
             LET wire == Nominal(RedeemDoc(
                           IF alter = "t" THEN t2 ELSE wallet.t,
                           IF alter = "tag" THEN tag2 ELSE tag,
                           IF alter = "host" THEN host2 ELSE host,
                           IF alter = "path" THEN path2 ELSE path,
                           host, path))
                 res == handle(srv, wire, 1)
             IN  /\ last' = [kind |-> "clientRedeem", wire |-> wire, res |-> res,
                              alter |-> alter]
                 /\ srv' = serverAfter(srv, res)
  /\ UNCHANGED <<pc, exitErr, env, conns, wallet, backoffDelay, acceptLog>>

\* the exchange is over; the next one starts from the same server
Done ==
  /\ last.kind # "none"
  /\ last' = NoLast
  /\ UNCHANGED <<pc, exitErr, env, srv, conns, wallet, backoffDelay, acceptLog>>

NextCore ==
  \/ Main
  \/ Listen
  \/ Request
  \/ ClientIssue
  \/ ClientRedeem
  \/ Done

SpecCore == Init /\ [][NextCore]_vars

\* ---------------------------------------------------------------- claims
Handled(c) == conns[c].st \in {"handled", "delivered"}
Payloads(res) == {res.out[i] : i \in 1 .. Len(res.out)}
LastDoc == last.wire.doc
LastContents == LastDoc.Request.Contents

\* C1: every Issue request, on any connection and after any others, is
\* evaluated under the primary key keys[0] and the commitment (G, H) loaded
\* at startup: the key, G and H handed to the issue handler are those, and
\* every signed point returned is keys[0] times its blinded point.
C1_IssueUsesPrimaryKey ==
  \A c \in ConnIds :
    (Handled(c) /\ conns[c].res.dispatched = "issue") =>
      /\ conns[c].res.call.key = env.keyFile.keys[1]
      /\ conns[c].res.call.G = env.commFile.G
      /\ conns[c].res.call.H = env.commFile.H
      /\ \A p \in Payloads(conns[c].res) :
           p.Z = [i \in 1 .. Len(conns[c].wire.doc.Request.Contents) |->
                    ScalarMult(env.keyFile.keys[1], conns[c].wire.doc.Request.Contents[i])]
\* an Issue request signed on the second connection, after another request
\* was handled, by a server with two different keys
C1_Witness ==
  /\ Len(srv.keys) = 2 /\ srv.keys[1] # srv.keys[2]
  /\ conns[1].st = "delivered" /\ conns[1].res.dispatched = "redeem"
  /\ conns[2].st = "handled" /\ conns[2].res.dispatched = "issue"
  /\ conns[2].res.err = "nil" /\ Len(conns[2].res.out) = 1

\* the tag of the token of preimage t made under scalar k, for (host, path)
TokenTag(t, k, host, path) == ClientTag(t, ScalarMult(k, HashToCurve(t)), host, path)

\* C2: a Redeem request succeeds iff its tag is the one derived under some
\* configured key, primary or not, for the envelope's host and path, and
\* fails with VerifyFailed otherwise: a token made under k redeems exactly
\* when k is among the configured keys.
C2_RedeemIffSomeKeyMatches ==
  (last.kind = "request" /\ last.res.dispatched = "redeem" /\ Len(LastContents) = 2) =>
    LET made(k) == LastContents[2] = TokenTag(LastContents[1], k, LastDoc.Host, LastDoc.Path)
        configured == {srv.keys[j] : j \in 1 .. Len(srv.keys)}
    IN  /\ (last.res.err = "nil") <=> (\E k \in configured : made(k))
        /\ (last.res.err # "nil") => (last.res.err = "VerifyFailed")
        /\ \A k \in Scalars : made(k) => ((last.res.err = "nil") <=> (k \in configured))
\* a token made under the non-primary key of two redeems
C2_Witness ==
  /\ last.kind = "request" /\ last.res.dispatched = "redeem" /\ last.res.err = "nil"
  /\ Len(srv.keys) = 2 /\ srv.keys[1] # srv.keys[2]
  /\ LastContents[2] = TokenTag(LastContents[1], srv.keys[2], LastDoc.Host, LastDoc.Path)

\* C3: the token a client obtained through issuance and unblinded redeems
\* with the tag it computes for (host, path), and is refused when one of
\* t, tag, host, path reaches the server altered.
C3_RoundTrip ==
  (last.kind = "clientRedeem") =>
    /\ (last.alter = "none") =>
         (last.res.err = "nil" /\ last.res.out = <<TextPayload(SuccessMarker)>>)
    /\ (last.alter # "none") =>
         (last.res.err = "VerifyFailed" /\ TextPayload(SuccessMarker) \notin Payloads(last.res))
\* an issued and unblinded token was redeemed unaltered
C3_Witness ==
  /\ last.kind = "clientRedeem" /\ last.alter = "none" /\ last.res.err = "nil"
  /\ wallet.has /\ wallet.N = ScalarMult(srv.keys[1], HashToCurve(wallet.t))

\* the startup inputs get as far as the commitment check
ReachesCommitmentCheck ==
  /\ env.configFile = "" /\ env.key # "" /\ env.comm # ""
  /\ env.keyFile.ok /\ Len(env.keyFile.keys) > 0 /\ env.commFile.ok
CommitmentMatches == env.commFile.H = ScalarMult(env.keyFile.keys[1], env.commFile.G)

\* C4: the listener is open and connections are accepted only when the
\* commitment check passed, with the G and H of the commitment file; when H
\* differs from k0.G startup ends fatally with no connection accepted, and
\* when H = k0.G it goes on to ListenAndServe.
C4_NoServingWithoutCommitment ==
  /\ (pc = "serving" \/ \E c \in ConnIds : conns[c].st # "free") =>
       /\ ReachesCommitmentCheck /\ CommitmentMatches
       /\ srv.G = env.commFile.G /\ srv.H = env.commFile.H
       /\ srv.keys = env.keyFile.keys
  /\ (pc # "start" /\ ReachesCommitmentCheck /\ ~CommitmentMatches) =>
       /\ pc = "fatal" /\ exitErr = "CommitmentMismatch"
       /\ \A c \in ConnIds : conns[c].st = "free"
  /\ (pc # "start" /\ ReachesCommitmentCheck /\ CommitmentMatches) =>
       (pc \in {"ListenAndServe", "serving"} \/ (pc = "fatal" /\ exitErr = "ListenError"))
\* startup ended on a commitment that does not match the primary key
C4_Witness ==
  /\ pc = "fatal" /\ exitErr = "CommitmentMismatch"
  /\ ReachesCommitmentCheck /\ ~CommitmentMatches

\* the wire of the last request with the inner payload claiming (ch, cp)
WithClaims(wire, ch, cp) ==
  [wire EXCEPT !.doc.Request.claimHost = ch, !.doc.Request.claimPath = cp]

\* C5: the outcome of a Redeem request does not depend on the host and path
\* its inner payload claims: every request with the same envelope host and
\* path, preimage and tag gets the same error and the same response, and
\* the binding handed to the verifier is the envelope's.
C5_BindingFromEnvelope ==
  (last.kind = "request" /\ last.res.dispatched = "redeem") =>
    /\ last.res.call.host = LastDoc.Host /\ last.res.call.path = LastDoc.Path
    /\ \A ch \in Hosts, cp \in Paths :
         LET other == handle(srv, WithClaims(last.wire, ch, cp), 1)
         IN  other.err = last.res.err /\ other.out = last.res.out
\* a Redeem request succeeded whose payload claims another host and path
\* than the envelope's, the tag being good for the envelope's only
C5_Witness ==
  /\ last.kind = "request" /\ last.res.dispatched = "redeem" /\ last.res.err = "nil"
  /\ LastDoc.Request.claimHost # LastDoc.Host /\ LastDoc.Request.claimPath # LastDoc.Path

\* C6: an Issue request with no blinded point is refused with EmptyBatch and
\* one with more than the configured MaxTokens with BatchSizeExceeded;
\* nothing is written to the connection in either case.
C6_BatchSizeRejected ==
  (last.kind = "request" /\ last.res.dispatched = "issue") =>
    /\ (Len(LastContents) = 0) => (last.res.err = "EmptyBatch" /\ last.res.out = <<>>)
    /\ (Len(LastContents) > env.maxtokens) =>
         (last.res.err = "BatchSizeExceeded" /\ last.res.out = <<>>)
\* a batch of MaxTokens + 1 valid points was refused
C6_Witness ==
  /\ last.kind = "request" /\ last.res.dispatched = "issue"
  /\ Len(LastContents) = env.maxtokens + 1
  /\ \A i \in 1 .. Len(LastContents) : IsValidPoint(LastContents[i])
  /\ last.res.err = "BatchSizeExceeded"

\* C7: a batch of n valid blinded points, 1 <= n <= MaxTokens, is answered
\* with n signed points, Z[i] = k0.M[i] position by position, and one proof
\* that verifies against the published (G, H); with k0 = 7, G = g and
\* M = g^3 the signed point is g^10.
C7_IssueSignsBatch ==
  (/\ last.kind = "request" /\ last.res.dispatched = "issue"
   /\ Len(LastContents) \in 1 .. env.maxtokens
   /\ \A i \in 1 .. Len(LastContents) : IsValidPoint(LastContents[i])) =>
    /\ last.res.err = "nil"
    /\ Len(last.res.out) = 1
    /\ last.res.out[1].kind = "issued"
    /\ Len(last.res.out[1].Z) = Len(LastContents)
    /\ \A i \in 1 .. Len(LastContents) :
         last.res.out[1].Z[i] = ScalarMult(env.keyFile.keys[1], LastContents[i])
    /\ VerifyBatchProof(env.commFile.G, env.commFile.H, LastContents, last.res.out[1].Z,
                        last.res.out[1].proof)
    /\ (env.keyFile.keys[1] = 7 /\ env.commFile.G = 1 /\ LastContents = <<3>>) =>
         last.res.out[1].Z = <<10>>
\* the toy scenario: k0 = 7, G = g, H = g^7, M = g^3 signed as g^10
C7_Witness ==
  /\ last.kind = "request" /\ last.res.dispatched = "issue" /\ last.res.err = "nil"
  /\ srv.keys[1] = 7 /\ srv.G = 1 /\ srv.H = 7 /\ LastContents = <<3>>
  /\ last.res.out[1].Z = <<10>>

\* C9: a request of more than maxRequestSize bytes is refused unprocessed:
\* neither the Issue nor the Redeem handler is called for it.
C9_OversizedNotProcessed ==
  \A c \in ConnIds :
    (Handled(c) /\ conns[c].wire.docLen + conns[c].wire.padLen > maxRequestSize) =>
      conns[c].res.dispatched = "none"

\* C10: a failed Redeem request has the failure text, which is not the
\* success marker, written to its connection while the connection is still
\* open, and the success marker is on a connection only if the tag matched
\* under a configured key.
C10_RedeemFailureWritten ==
  \A c \in ConnIds :
    (Handled(c) /\ conns[c].res.dispatched = "redeem") =>
      /\ (conns[c].res.err # "nil") =>
           /\ conns[c].res.out = <<TextPayload(conns[c].res.err)>>
           /\ conns[c].res.err # SuccessMarker
      /\ (TextPayload(SuccessMarker) \in Payloads(conns[c].res)) =>
           /\ conns[c].res.err = "nil"
           /\ \E j \in 1 .. Len(srv.keys) :
                conns[c].wire.doc.Request.Contents[2] =
                  TokenTag(conns[c].wire.doc.Request.Contents[1], srv.keys[j],
                           conns[c].wire.doc.Host, conns[c].wire.doc.Path)
\* a Redeem request failed and its connection, not yet closed, holds the text
C10_Witness ==
  \E c \in ConnIds :
    /\ conns[c].st = "delivered" /\ conns[c].res.dispatched = "redeem"
    /\ conns[c].res.err = "VerifyFailed"
    /\ conns[c].res.out = <<TextPayload("VerifyFailed")>>

\* C11: any two failing Redeem requests get the same bytes written to their
\* connections, whatever made each of them fail.
C11_UniformRedeemFailure ==
  (last.kind = "request" /\ last.res.dispatched = "redeem" /\ last.res.err # "nil") =>
    \A doc \in OtherDocs \cup SmallDocs :
      LET other == handle(srv, Nominal(doc), 1)
      IN  (other.dispatched = "redeem" /\ other.err # "nil") => other.out = last.res.out

\* C12: a failed Issue request has an error payload written to its
\* connection before the connection is closed.
C12_IssueFailureWritten ==
  \A c \in ConnIds :
    (Handled(c) /\ conns[c].res.dispatched = "issue" /\ conns[c].res.err # "nil") =>
      (Len(conns[c].res.out) > 0 /\ conns[c].res.out[1].kind = "error")

\* position of a connection's goroutine
St(c) == conns[c].st
\* the accept loop has a connection slot to give out
SlotFree == \E c \in ConnIds : St(c) \in {"free", "closed"}

\* C13: for every accepted connection, whatever its handler returns, the
\* result reaches the logging goroutine, the connection is closed after that
\* and exactly once, and ListenAndServe neither returns nor stops accepting.
C13_ResultLoggedThenClosed ==
  /\ \A c \in ConnIds : (St(c) = "accepted") ~> (St(c) = "closed")
  /\ [][\A c \in ConnIds :
          /\ (St(c)' = "delivered" /\ St(c) # "delivered") => St(c) = "handled"
          /\ (St(c)' = "closed" /\ St(c) # "closed") => St(c) = "delivered"
          /\ (St(c) = "closed") => St(c)' \in {"closed", "accepted"}]_vars
  /\ [][(pc = "serving") => (pc' = "serving")]_vars
  /\ []((pc = "serving" /\ SlotFree) => ENABLED Accept)
\* a handler's error was delivered, another connection was closed, and the
\* server is still serving
C13_Witness ==
  /\ pc = "serving"
  /\ St(1) = "delivered" /\ conns[1].res.err # "nil"
  /\ St(2) = "closed"

\* C14: connections are handled concurrently and in isolation. Whatever the
\* other connections are doing (handler running, failed, or done), the accept
\* loop can accept while a slot is left and every goroutine can take its own
\* next step; a step of one connection leaves every other connection as it
\* was; and two connections that sent the same request hold the same result.
C14_ConcurrentIsolated ==
  /\ [](\A c \in ConnIds :
          /\ (pc = "serving" /\ SlotFree) => ENABLED Accept
          /\ (St(c) = "accepted") => ENABLED Handle(c)
          /\ (St(c) = "handled") => ENABLED Deliver(c)
          /\ (St(c) = "delivered") => ENABLED Close(c))
  /\ [][\A c, d \in ConnIds : (c # d /\ conns[c]' # conns[c]) => conns[d]' = conns[d]]_vars
  /\ [](\A c, d \in ConnIds :
          (Handled(c) /\ Handled(d) /\ conns[c].wire = conns[d].wire) =>
            conns[c].res = conns[d].res)
\* the first connection's handler has failed and not yet reported; the
\* second, accepted after it, was served and both sent different requests
C14_Witness ==
  /\ St(1) = "handled" /\ conns[1].res.err # "nil"
  /\ St(2) = "delivered" /\ conns[2].res.err = "nil" /\ Len(conns[2].res.out) = 1

\* C15: key material is read-only after startup. Once main has loaded the
\* keys and checked the commitment, no step (a request of any kind, failed or
\* successful, or the end of an exchange) changes the key list, its order,
\* G or H.
C15_KeyMaterialReadOnly ==
  [][(pc \in {"ListenAndServe", "serving"}) =>
       (srv.keys' = srv.keys /\ srv.G' = srv.G /\ srv.H' = srv.H)]_vars
\* after an issuance, a refused redemption was handled by a server with two
\* different keys, which still holds the key file's list and the commitment
C15_Witness ==
  /\ wallet.has /\ last.kind = "clientRedeem" /\ last.res.err # "nil"
  /\ Len(srv.keys) = 2 /\ srv.keys[1] # srv.keys[2]
  /\ srv.keys = env.keyFile.keys /\ srv.G = env.commFile.G /\ srv.H = env.commFile.H

\* the server as main built it from the command line and the files
StartupServer == main(env).srv
\* the connection's request is a redemption whose tag was made under a
\* configured key for the envelope's host and path
ValidRedeem(c) ==
  LET doc == conns[c].wire.doc
  IN  /\ conns[c].res.dispatched = "redeem" /\ Len(doc.Request.Contents) = 2
      /\ \E j \in 1 .. Len(env.keyFile.keys) :
           doc.Request.Contents[2] =
             TokenTag(doc.Request.Contents[1], env.keyFile.keys[j], doc.Host, doc.Path)

\* C16: the server keeps no state between requests. The result of a request
\* is what handle gives for it on the server as it was built at startup,
\* whatever was handled before or is being handled beside it; and a valid
\* redemption succeeds each time it is presented.
C16_NoCrossRequestState ==
  \A c \in ConnIds :
    Handled(c) =>
      /\ \E r \in ConnNonces : conns[c].res = handle(StartupServer, conns[c].wire, r)
      /\ ValidRedeem(c) =>
           (conns[c].res.err = "nil" /\ conns[c].res.out = <<TextPayload(SuccessMarker)>>)
\* the same valid redemption was presented on both connections, the second
\* while the first was already answered, and both succeeded
C16_Witness ==
  /\ St(1) = "delivered" /\ St(2) = "handled"
  /\ ValidRedeem(1) /\ conns[2].wire = conns[1].wire
  /\ conns[1].res.err = "nil" /\ conns[2].res.err = "nil"

\* a connection was accepted at some time
SomeAccepted == \E c \in ConnIds : St(c) # "free"
\* the startup inputs that must stop startup
BadKeyInputs ==
  \/ env.key = "" \/ env.comm = ""
  \/ ~env.keyFile.ok \/ ~env.commFile.ok
  \/ Len(env.keyFile.keys) = 0

\* C17: the server serves only with a non-empty key list that holds every
\* scalar of the key file, in the file's order, the file giving as many
\* curves as keys. An empty key or commitment path, a key-file or
\* commitment-file parse error, or an empty key list ends startup with no
\* connection accepted, so that handle always finds keys[0].
C17_ServesOnlyWithKeys ==
  /\ (pc = "serving" \/ SomeAccepted) =>
       /\ ~BadKeyInputs
       /\ Len(srv.keys) > 0
       /\ srv.keys = ParseKeyFile(env).keys
       /\ Len(ParseKeyFile(env).curves) = Len(srv.keys)
       /\ ParseKeyFile(env).err = "nil"
  /\ (pc # "start" /\ BadKeyInputs) =>
       (pc \in {"fatal", "usage", "panic"} /\ ~SomeAccepted)
  /\ \A c \in ConnIds :
       (Handled(c) /\ conns[c].res.dispatched = "issue") =>
         conns[c].res.call.key = srv.keys[1]
\* a server whose key file has two entries serves an Issue request with the
\* first of them
C17_Witness ==
  /\ pc = "serving" /\ Len(env.keyFile.keys) = 2 /\ Len(srv.keys) = 2
  /\ St(1) = "handled" /\ conns[1].res.dispatched = "issue"
  /\ conns[1].res.call.key = env.keyFile.keys[1]

\* C18: when a config file is named and holds readable, well-formed JSON,
\* startup takes its configuration from the file and goes on to key loading:
\* it does not end at the configuration step.
C18_ConfigFileTaken ==
  (pc # "start" /\ env.configFile # "" /\ env.configData = "ok") =>
    /\ loadConfigFile(env).err = "nil"
    /\ ~(pc = "fatal" /\ exitErr = loadConfigFile(env).err)

\* what json.Unmarshal made of the bytes read from the last request
LastDecoded == unmarshalWrapped(last.wire, readRequest(last.wire).n)
\* the last request was read and decoded, envelope and inner request
LastWasDecoded ==
  /\ last.kind = "request" /\ readRequest(last.wire).proceed
  /\ LastDecoded.wf /\ LastDecoded.Request.wf

\* C19: a decoded request goes to exactly one of the Issue handler, the
\* Redeem handler, or rejection, by its type alone. A request of any other
\* type calls neither handler, is given no key, has nothing written to its
\* connection and yields ErrUnrecognizedRequest.
C19_DispatchedOnce ==
  LastWasDecoded =>
    LET type == LastDecoded.Request.Type
        res == last.res
    IN  /\ res.dispatched \in {"issue", "redeem", "none"}
        /\ (res.dispatched = "issue") <=> (type = ISSUE)
        /\ (res.dispatched = "redeem") <=> (type = REDEEM)
        /\ (res.dispatched = "issue") => (res.call = issueArgs(srv) /\ res.call.keys = <<>>)
        /\ (res.dispatched = "redeem") =>
             (res.call = redeemArgs(srv, LastDecoded, LastDecoded.Request) /\ res.call.key = 0)
        /\ Len(res.out) <= 1
        /\ (type \notin {ISSUE, REDEEM}) =>
             /\ res.dispatched = "none" /\ res.call = NoCall
             /\ res.out = <<>> /\ res.err = "ErrUnrecognizedRequest"
\* a well-formed request of another type was refused
C19_Witness ==
  /\ LastWasDecoded /\ LastDecoded.Request.Type \notin {ISSUE, REDEEM}
  /\ last.res.err = "ErrUnrecognizedRequest" /\ last.res.out = <<>>

\* C20: the backoff of the accept loop. No sleep is longer than
\* maxBackoffDelay and the stored delay is never more than twice that. The
\* sleep after a temporary error is 1 ms when no sleep was made since the
\* start or the last accepted connection, and otherwise twice the sleep
\* before it, capped at maxBackoffDelay. Any other accept error makes no
\* sleep and leaves the stored delay as it was; an accepted connection sets
\* it back to 1 ms.
C20_Backoff ==
  /\ acceptLog.slept <= maxBackoffDelay
  /\ backoffDelay >= initialBackoffDelay /\ backoffDelay <= 2 * maxBackoffDelay
  /\ (acceptLog.outcome = "temporary") =>
       acceptLog.slept = IF acceptLog.prevSleep = 0 THEN initialBackoffDelay
                         ELSE Min(2 * acceptLog.prevSleep, maxBackoffDelay)
  /\ (acceptLog.outcome = "error") =>
       (acceptLog.slept = 0 /\ backoffDelay = acceptLog.before)
  /\ (acceptLog.outcome = "ok") =>
       (acceptLog.slept = 0 /\ backoffDelay = initialBackoffDelay)
  /\ (acceptLog.outcome = "none") => backoffDelay = initialBackoffDelay
\* after a connection was accepted, temporary errors went on until the sleep
\* reached the cap
C20_Witness ==
  /\ St(1) = "accepted" /\ acceptLog.outcome = "temporary"
  /\ acceptLog.prevSleep = 512 /\ acceptLog.slept = maxBackoffDelay
  /\ backoffDelay = 2 * maxBackoffDelay

====
